---- MODULE Spec2Model ----
(***************************************************************************)
(* quick-env (bin/quickenv.js): the interactive list selector              *)
(* (selectMenuInteractively, selectPresetInteractively), its line-based    *)
(* redraw protocol, and the commands that call it.                         *)
(*                                                                         *)
(* A string is a sequence of tokens; a token is an indivisible run of      *)
(* characters ("dev"), a line break ("\n") or one ANSI style code          *)
(* ("ESC[1m").  A JavaScript value that is either null or a string is a    *)
(* record [tag, val].  Indexes are 0-based as in the source; items[i] of   *)
(* the source is items[i + 1] here.                                        *)
(***************************************************************************)
EXTENDS Integers, Sequences, FiniteSets, TLC

VARIABLES
    env,            \* the process's terminal environment (fixed per process)
    kind,           \* which selector the current session runs: none, menu, preset
    items,          \* items / names: the labels of the session
    title,          \* the title line of the session
    initialIndex,   \* the initialIndex option of selectMenuInteractively
    current,        \* the current argument of selectPresetInteractively
    idx,            \* let idx
    renderedLines,  \* let renderedLines
    needClose,      \* let needClose
    input,          \* let input: "stdin", or "tty" for the stream opened on /dev/tty
    pending,        \* the promise of the session has been created and not resolved
    result,         \* the value the promise resolved with
    rawMode,        \* the terminal is in raw mode
    listening,      \* onKeypress is registered on input
    flowing,        \* input is resumed
    ttyFd,          \* the descriptor the selector opened itself: none, open, closed
    written,        \* lines physically written by the last render pass
    lastErase,      \* the last clearLines: n lines erased, of the lines then on screen
    effects,        \* what the last handler did, in order
    outcome,        \* the exit path that resolved: none, picked, cancelled, failed
    resolveCalls,   \* calls of resolve in this session
    idx0,           \* idx when the session opened
    downs,          \* Down presses handled in this session
    ups,            \* Up presses handled in this session
    keys,           \* key events delivered in this session
    lastKey,        \* the key event delivered last
    renders,        \* render passes of this session
    disk,           \* the file ~/.quick-env/config.json: its kind and content
    tmp,            \* the temp file writeConfig writes before the rename
    cfg,            \* const cfg of the running command
    pc,             \* where the process is: start, an await of a command, exit
    inRoot,         \* the command runs inside the loop of cmdRootInteractive
    names,          \* let names of the running command
    presetName,     \* name / presetName of the running command
    key,            \* key of the running command
    exitCode,       \* the status the process ended with, -1 while it runs
    failedBefore,   \* a selector call of this process failed to get a terminal
    reinvoked,      \* a selector was called after such a failure
    handled,        \* the result a caller took in the step just made, the branch taken
    commands,       \* the commands the palette of this process has dispatched
    answered,       \* the lines of input the prompts of this process have read
    args,           \* process.argv.slice(2) of this process
    stdout          \* the chunks that cmdUse and the selector have written to
                    \* process.stdout since the command in progress was dispatched

vars == <<env, kind, items, title, initialIndex, current, idx, renderedLines,
          needClose, input, pending, result, rawMode, listening, flowing, ttyFd,
          written, lastErase, effects, outcome, resolveCalls, idx0, downs, ups, keys,
          lastKey, renders, disk, tmp, cfg, pc, inRoot, names, presetName, key, exitCode,
          failedBefore, reinvoked, handled, commands,
          answered, args, stdout>>

(***************************************************************************)
(* Bounds                                                                  *)
(***************************************************************************)
MaxItems == 3
MaxKeys == 4
MaxLines == 3
MaxCommands == 2

(***************************************************************************)
(* Values                                                                  *)
(***************************************************************************)
JSNull == [tag |-> "null", val |-> <<>>]

JSStr(s) == [tag |-> "str", val |-> s]

\* process.argv.slice(2): the command and its three arguments, null when absent
Argv(c, name, k, value) == [cmd |-> c, name |-> name, key |-> k, value |-> value]

\* the process has not read its command line yet
NoArgv == Argv("none", JSNull, JSNull, JSNull)

\* !v
Falsy(v) == v.tag = "null" \/ v.val = <<>>

Max(a, b) == IF a >= b THEN a ELSE b

Min(a, b) == IF a <= b THEN a ELSE b

\* Array.prototype.indexOf on an array of strings: 0-based, -1 when absent
IndexOf(seq, x) ==
    IF \E i \in 1..Len(seq) : seq[i] = x
    THEN (CHOOSE i \in 1..Len(seq) : seq[i] = x /\ \A j \in 1..(i - 1) : seq[j] # x) - 1
    ELSE -1

RECURSIVE Join(_, _)
\* Array.prototype.join
Join(lines, sep) ==
    IF Len(lines) = 0 THEN <<>>
    ELSE IF Len(lines) = 1 THEN lines[1]
    ELSE lines[1] \o sep \o Join(Tail(lines), sep)

\* the line breaks a text moves the cursor down by
LineBreaks(text) == Cardinality({i \in 1..Len(text) : text[i] = "\n"})

\* the c helpers
bold(s) == <<"ESC[1m">> \o s \o <<"ESC[22m">>

dim(s) == <<"ESC[2m">> \o s \o <<"ESC[22m">>

green(s) == <<"ESC[32m">> \o s \o <<"ESC[39m">>

cyan(s) == <<"ESC[36m">> \o s \o <<"ESC[39m">>

hint == dim(<<"up/down to move, Enter to confirm, Esc to cancel">>)

(***************************************************************************)
(* The inputs the sessions are opened with                                 *)
(***************************************************************************)
dev == <<"dev">>

staging == <<"staging">>

prod == <<"prod">>

qa == <<"qa">>

\* a preset name with a line break in it: quickenv set $'a\nb' KEY VALUE
multi == <<"a", "\n", "b">>

Labels == {dev, staging, prod, qa, multi}

Prefix(seq, n) == SubSeq(seq, 1, Min(n, Len(seq)))

\* item lists of 1..MaxItems labels, in the order a menu lists them
MenuBases == {<<dev, staging, prod, qa, multi>>, <<multi, dev, prod, qa, staging>>,
              <<dev, multi, prod, staging, qa>>}

ItemLists == {Prefix(b, n) : b \in MenuBases, n \in 1..MaxItems}

\* preset names as the callers pass them: Object.keys(cfg.envs).sort()
NameBases == {<<multi, dev, prod, qa, staging>>, <<dev, prod, qa, staging>>,
              <<prod, staging>>}

NameLists == {Prefix(b, n) : b \in NameBases, n \in 1..MaxItems}

Titles == {<<"Select:">>, <<"Select a KEY to delete (preset: ">> \o multi \o <<")">>}

\* initialIndex as a caller may pass it, in range or not
InitialIndexes == (-1)..(MaxItems + 1)

\* cfg.current as a caller passes it: null, or a name that may be absent from the list
Currents == {JSNull} \cup {JSStr(n) : n \in Labels}

KeyNames == {"up", "down", "return", "enter", "escape", "c", "x"}

\* the listener called with no key descriptor
NoKey == [has |-> FALSE, name |-> "", ctrl |-> FALSE]

\* a keypress event
Keys == {NoKey} \cup [has : {TRUE}, name : KeyNames, ctrl : {FALSE}]
        \cup [has : {TRUE}, name : {"c", "up"}, ctrl : {TRUE}]

\* stdin is a terminal, or /dev/tty opens and the stream on it is built, or either fails
Envs == [stdinIsTTY : {TRUE}, openOk : {TRUE}, ctorOk : {TRUE}]
        \cup [stdinIsTTY : {FALSE}, openOk : {FALSE}, ctorOk : {FALSE}]
        \cup [stdinIsTTY : {FALSE}, openOk : {TRUE}, ctorOk : BOOLEAN]

\* the steps of stop() that throw: none, where the terminal honours every call
NoFaults == {}

\* the calls of stop() that may throw
Faults == {"off", "setRawMode", "pause", "destroy"}

\* no call of a stop() throws, or one of them does
FaultSets == {NoFaults} \cup {{f} : f \in Faults}

(***************************************************************************)
(* The state a handler works on, and the steps of the handlers             *)
(***************************************************************************)
Cur ==
    [kind |-> kind, items |-> items, title |-> title, idx |-> idx,
     renderedLines |-> renderedLines, needClose |-> needClose, input |-> input,
     pending |-> pending, result |-> result, rawMode |-> rawMode,
     listening |-> listening, flowing |-> flowing, ttyFd |-> ttyFd,
     written |-> written, lastErase |-> lastErase, effects |-> effects,
     outcome |-> outcome, resolveCalls |-> resolveCalls, idx0 |-> idx0,
     downs |-> downs, ups |-> ups, keys |-> keys, lastKey |-> lastKey,
     renders |-> renders, initialIndex |-> initialIndex, current |-> current,
     disk |-> disk, tmp |-> tmp, cfg |-> cfg, pc |-> pc, inRoot |-> inRoot, names |-> names,
     presetName |-> presetName, key |-> key, exitCode |-> exitCode,
     failedBefore |-> failedBefore, reinvoked |-> reinvoked, handled |-> handled,
     commands |-> commands, answered |-> answered, args |-> args, stdout |-> stdout]

Commit(s) ==
    /\ kind' = s.kind
    /\ items' = s.items
    /\ title' = s.title
    /\ idx' = s.idx
    /\ renderedLines' = s.renderedLines
    /\ needClose' = s.needClose
    /\ input' = s.input
    /\ pending' = s.pending
    /\ result' = s.result
    /\ rawMode' = s.rawMode
    /\ listening' = s.listening
    /\ flowing' = s.flowing
    /\ ttyFd' = s.ttyFd
    /\ written' = s.written
    /\ lastErase' = s.lastErase
    /\ effects' = s.effects
    /\ outcome' = s.outcome
    /\ resolveCalls' = s.resolveCalls
    /\ idx0' = s.idx0
    /\ downs' = s.downs
    /\ ups' = s.ups
    /\ keys' = s.keys
    /\ renders' = s.renders
    /\ lastKey' = s.lastKey
    /\ initialIndex' = s.initialIndex
    /\ current' = s.current
    /\ disk' = s.disk
    /\ tmp' = s.tmp
    /\ cfg' = s.cfg
    /\ pc' = s.pc
    /\ inRoot' = s.inRoot
    /\ names' = s.names
    /\ presetName' = s.presetName
    /\ key' = s.key
    /\ exitCode' = s.exitCode
    /\ failedBefore' = s.failedBefore
    /\ reinvoked' = s.reinvoked
    /\ handled' = s.handled
    /\ commands' = s.commands
    /\ answered' = s.answered
    /\ args' = s.args
    /\ stdout' = s.stdout

\* a session not yet opened
Fresh(s) ==
    [s EXCEPT !.kind = "none", !.items = <<>>, !.title = <<>>, !.idx = 0,
              !.renderedLines = 0, !.needClose = FALSE, !.input = "stdin",
              !.pending = FALSE, !.result = JSNull, !.ttyFd = "none",
              !.written = 0, !.lastErase = [n |-> 0, of |-> 0], !.effects = <<>>,
              !.outcome = "none", !.resolveCalls = 0, !.idx0 = 0, !.downs = 0,
              !.ups = 0, !.keys = 0, !.renders = 0, !.lastKey = NoKey,
              !.initialIndex = 0, !.current = JSNull]

\* process.stdout.write(str)
stdoutWrite(s, str) == [s EXCEPT !.stdout = @ \o <<str>>]

\* writeStderr with process.stdout in the place of process.stderr
writeStderr_toStdout(s, str) ==
    stdoutWrite([s EXCEPT !.effects = @ \o <<"write">>], str)

\* console.error(str): a write to process.stderr
consoleError(s, str) ==
    [s EXCEPT !.effects = @ \o <<"write">>]

\* writeStderr(str)
writeStderr(s, str) ==
    [s EXCEPT !.effects = @ \o <<"write">>]

\* clearLines(count): cursor up and erase line, count times
clearLines(s, count) ==
    [s EXCEPT !.lastErase = [n |-> count, of |-> s.written],
              !.effects = @ \o <<"clear">>]

\* resolve(v) of the session's promise: a second call changes nothing
resolve(s, v, how) ==
    IF s.pending
    THEN [s EXCEPT !.pending = FALSE, !.result = v, !.outcome = how,
                   !.resolveCalls = @ + 1, !.effects = @ \o <<"resolve">>]
    ELSE [s EXCEPT !.resolveCalls = @ + 1, !.effects = @ \o <<"resolve">>]

\* the lines of one render pass: the header, one line per item, the hint
BlockLines(hdr, labels, sel) ==
    <<hdr>>
    \o [i \in 1..Len(labels) |->
          <<" ">> \o (IF i - 1 = sel THEN green(<<">">>) ELSE <<" ">>) \o <<" ">>
          \o (IF i - 1 = sel THEN green(bold(labels[i])) ELSE labels[i])]
    \o <<hint>>

\* render(): erase the block of the pass before, write the new block, record its lines
render(s) ==
    LET lines == BlockLines(cyan(bold(s.title)), s.items, s.idx)
        out == Join(lines, <<"\n">>) \o <<"\n">>
        erased == IF s.renderedLines > 0 THEN clearLines(s, s.renderedLines) ELSE s
    IN [writeStderr(erased, out) EXCEPT !.renderedLines = Len(lines),
                                        !.written = LineBreaks(out),
                                        !.renders = @ + 1]

\* cleanup(): erase the block on screen
cleanup(s) ==
    IF s.renderedLines > 0
    THEN [clearLines(s, s.renderedLines) EXCEPT !.renderedLines = 0]
    ELSE s

\* stop() that leaves the terminal in raw mode
stop_keepsRawMode(s, fails) ==
    LET s1 == [s EXCEPT !.listening = FALSE, !.flowing = FALSE,
                        !.effects = @ \o <<"off", "pause">>]
    IN IF s1.needClose
       THEN [s1 EXCEPT !.ttyFd = "closed", !.effects = @ \o <<"destroy">>]
       ELSE s1

\* stop() with one try around all its calls: the first throw skips the rest
stop_oneTry(s, fails) ==
    LET s1 == [s EXCEPT !.effects = @ \o <<"off">>]
        s2 == [s1 EXCEPT !.listening = FALSE, !.effects = @ \o <<"setRawMode(false)">>]
        s3 == [s2 EXCEPT !.rawMode = FALSE, !.effects = @ \o <<"pause">>]
        s4 == [s3 EXCEPT !.flowing = FALSE]
        s5 == [s4 EXCEPT !.effects = @ \o <<"destroy">>]
    IN IF "off" \in fails THEN s1
       ELSE IF "setRawMode" \in fails THEN s2
       ELSE IF "pause" \in fails THEN s3
       ELSE IF ~s.needClose THEN s4
       ELSE IF "destroy" \in fails THEN s5
       ELSE [s5 EXCEPT !.ttyFd = "closed"]

\* stop(): each call in its own try, a throw swallowed; fails are the calls that throw
stop(s, fails) ==
    LET s1 == [s EXCEPT !.listening = IF "off" \in fails THEN @ ELSE FALSE,
                        !.effects = @ \o <<"off">>]
        s2 == [s1 EXCEPT !.rawMode = IF "setRawMode" \in fails THEN @ ELSE FALSE,
                         !.effects = @ \o <<"setRawMode(false)">>]
        s3 == [s2 EXCEPT !.flowing = IF "pause" \in fails THEN @ ELSE FALSE,
                         !.effects = @ \o <<"pause">>]
    IN IF s3.needClose
       THEN [s3 EXCEPT !.ttyFd = IF "destroy" \in fails THEN @ ELSE "closed",
                       !.effects = @ \o <<"destroy">>]
       ELSE s3

\* Up that stops at the first item instead of wrapping
keyUp_noWrap(s) ==
    render([s EXCEPT !.idx = Max(s.idx - 1, 0), !.ups = @ + 1])

\* key.name === "up"
keyUp(s) ==
    LET n == Len(s.items)
    IN render([s EXCEPT !.idx = (s.idx - 1 + n) % n, !.ups = @ + 1])

\* Down that stops at the last item instead of wrapping
keyDown_noWrap(s) ==
    render([s EXCEPT !.idx = Min(s.idx + 1, Len(s.items) - 1), !.downs = @ + 1])

\* key.name === "down"
keyDown(s) ==
    LET n == Len(s.items)
    IN render([s EXCEPT !.idx = (s.idx + 1) % n, !.downs = @ + 1])

\* Enter that resolves and leaves the listener and the terminal as they are
keyEnter_noStop(s, fails) ==
    resolve(cleanup(s), JSStr(s.items[s.idx + 1]), "picked")

\* Enter that resolves first and cleans up after
keyEnter_resolveFirst(s, fails) ==
    stop(cleanup(resolve(s, JSStr(s.items[s.idx + 1]), "picked")), fails)

\* key.name === "return" || key.name === "enter"
keyEnter(s, fails) ==
    resolve(stop(cleanup(s), fails), JSStr(s.items[s.idx + 1]), "picked")

\* key.name === "escape" || (key.name === "c" && key.ctrl)
keyEscape(s, fails) ==
    resolve(stop(cleanup(s), fails), JSNull, "cancelled")

\* onKeypress that takes a plain c for Ctrl+C
onKeypress_plainCCancels(s, k, fails) ==
    IF ~k.has THEN s
    ELSE IF k.name = "up" THEN keyUp(s)
    ELSE IF k.name = "down" THEN keyDown(s)
    ELSE IF k.name = "return" \/ k.name = "enter" THEN keyEnter(s, fails)
    ELSE IF k.name = "escape" \/ k.name = "c" THEN keyEscape(s, fails)
    ELSE s

\* onKeypress(str, key)
onKeypress(s, k, fails) ==
    IF ~k.has THEN s
    ELSE IF k.name = "up" THEN keyUp(s)
    ELSE IF k.name = "down" THEN keyDown(s)
    ELSE IF k.name = "return" \/ k.name = "enter" THEN keyEnter(s, fails)
    ELSE IF k.name = "escape" \/ (k.name = "c" /\ k.ctrl) THEN keyEscape(s, fails)
    ELSE s

\* the try block that picks the input: stdin when it is a terminal, else /dev/tty
AcquireFails == ~env.stdinIsTTY /\ (~env.openOk \/ ~env.ctorOk)

\* the catch block: the message on the error stream, then resolve(null)
AcquireFailed(s) ==
    LET opened == IF env.openOk THEN [s EXCEPT !.ttyFd = "open"] ELSE s
    IN resolve(consoleError([opened EXCEPT !.failedBefore = TRUE],
                            <<"Non-interactive environment. Use command form instead.">>),
               JSNull, "failed")

Acquired(s) ==
    IF env.stdinIsTTY THEN [s EXCEPT !.input = "stdin", !.needClose = FALSE]
    ELSE [s EXCEPT !.ttyFd = "open", !.input = "tty", !.needClose = TRUE]

\* emitKeypressEvents, setRawMode(true), resume, on("keypress"), render()
Listen(s) ==
    render([s EXCEPT !.rawMode = TRUE, !.flowing = TRUE, !.listening = TRUE])

\* the clamp without its upper end
MenuIndex_noUpperClamp(its, initial) ==
    Max(0, initial)

\* let idx of selectMenuInteractively
MenuIndex(its, initial) ==
    Max(0, Min(initial, Max(Len(its) - 1, 0)))

\* let idx of selectPresetInteractively
PresetIndex(nms, cur) ==
    LET i == Max(0, IF ~Falsy(cur) THEN IndexOf(nms, cur.val) ELSE 0)
    IN IF i = -1 THEN 0 ELSE i

Begin(s, k, its, ttl) ==
    [Fresh(s) EXCEPT !.kind = k, !.items = its, !.title = ttl, !.pending = TRUE,
                     !.effects = <<>>, !.reinvoked = @ \/ s.failedBefore]

\* selectMenuInteractively(items, { title, initialIndex }), up to its first render
selectMenuInteractively(s, its, ttl, initial) ==
    LET b == [Begin(s, "menu", its, ttl) EXCEPT !.initialIndex = initial]
        i == MenuIndex(its, initial)
    IN IF AcquireFails
       THEN AcquireFailed(b)
       ELSE Listen([Acquired(b) EXCEPT !.idx = i, !.idx0 = i])

\* selectPresetInteractively(names, current), up to its first render
selectPresetInteractively(s, nms, cur) ==
    LET b == [Begin(s, "preset", nms, <<"Select a preset:">>) EXCEPT !.current = cur]
        i == PresetIndex(nms, cur)
    IN IF AcquireFails
       THEN AcquireFailed(b)
       ELSE Listen([Acquired(b) EXCEPT !.idx = i, !.idx0 = i])

(***************************************************************************)
(* The selector on its own: sessions opened with any arguments a caller    *)
(* may pass                                                                *)
(***************************************************************************)
DefaultConfig == [current |-> JSNull, envs |-> <<>>]

\* a file that holds JSON.stringify(c, null, 2) + "\n" of the config c, whole
File(c) == [file |-> "config", current |-> c.current, envs |-> c.envs]

\* a file of another kind: its content is no config
Other(k) == [file |-> k, current |-> JSNull, envs |-> <<>>]

\* no file at the path
NoFile == Other("absent")

\* a file that is not a well-formed config: no bytes or only white space, text that
\* is no JSON, JSON null, and an object whose envs is a number
BrokenFiles == {Other("blank"), Other("garbage"), Other("null"), Other("envsNotObject")}

\* a process that has not run anything yet
Idle(d, e) ==
    /\ env = e
    /\ kind = "none"
    /\ items = <<>>
    /\ title = <<>>
    /\ idx = 0
    /\ renderedLines = 0
    /\ needClose = FALSE
    /\ input = "stdin"
    /\ pending = FALSE
    /\ result = JSNull
    /\ rawMode = FALSE
    /\ listening = FALSE
    /\ flowing = FALSE
    /\ ttyFd = "none"
    /\ written = 0
    /\ lastErase = [n |-> 0, of |-> 0]
    /\ effects = <<>>
    /\ outcome = "none"
    /\ resolveCalls = 0
    /\ idx0 = 0
    /\ downs = 0
    /\ ups = 0
    /\ keys = 0
    /\ renders = 0
    /\ lastKey = NoKey
    /\ initialIndex = 0
    /\ current = JSNull
    /\ disk = d
    /\ tmp = NoFile
    /\ cfg = DefaultConfig
    /\ pc = "start"
    /\ inRoot = FALSE
    /\ names = <<>>
    /\ presetName = JSNull
    /\ key = <<>>
    /\ exitCode = -1
    /\ failedBefore = FALSE
    /\ reinvoked = FALSE
    /\ handled = [outcome |-> "none", as |-> "none"]
    /\ commands = 0
    /\ answered = 0
    /\ args = NoArgv
    /\ stdout = <<>>

Init == \E e \in Envs : Idle(File(DefaultConfig), e)

OpenMenu ==
    /\ pc = "start"
    /\ kind = "none"
    /\ \E its \in ItemLists, ttl \in Titles, i \in InitialIndexes :
          Commit(selectMenuInteractively(Cur, its, ttl, i))
    /\ UNCHANGED env

OpenPreset ==
    /\ pc = "start"
    /\ kind = "none"
    /\ \E nms \in NameLists, cur \in Currents :
          Commit(selectPresetInteractively(Cur, nms, cur))
    /\ UNCHANGED env

\* a key event reaches the listener registered on input
Keypress(k) ==
    /\ kind # "none"
    /\ listening
    /\ flowing
    /\ keys < MaxKeys
    /\ Commit(onKeypress([Cur EXCEPT !.keys = @ + 1, !.lastKey = k, !.effects = <<>>,
                                      !.handled = [outcome |-> "none", as |-> "none"]],
                          k, NoFaults))
    /\ UNCHANGED env

Key ==
    \E k \in Keys : Keypress(k)

\* the awaiting caller takes the result; the session's state is dropped
Deliver ==
    /\ pc = "start"
    /\ kind # "none"
    /\ ~pending
    /\ Commit([Fresh(Cur) EXCEPT !.failedBefore = FALSE, !.reinvoked = FALSE])
    /\ UNCHANGED env

Next ==
    \/ OpenMenu
    \/ OpenPreset
    \/ Key
    \/ Deliver

Spec == Init /\ [][Next]_vars

(***************************************************************************)
(* The selector on a terminal that may refuse one call of stop()           *)
(***************************************************************************)
\* a key event reaches the listener; the calls in fails throw when stop() makes them
KeypressFault(k, fails) ==
    /\ kind # "none"
    /\ listening
    /\ flowing
    /\ keys < MaxKeys
    /\ Commit(onKeypress([Cur EXCEPT !.keys = @ + 1, !.lastKey = k, !.effects = <<>>,
                                      !.handled = [outcome |-> "none", as |-> "none"]],
                          k, fails))
    /\ UNCHANGED env

KeyFault ==
    \E k \in Keys, fails \in FaultSets : KeypressFault(k, fails)

NextFault ==
    \/ OpenMenu
    \/ OpenPreset
    \/ KeyFault
    \/ Deliver

SpecFault == Init /\ [][NextFault]_vars

(***************************************************************************)
(* The commands that call the selector                                     *)
(***************************************************************************)
red(s) == <<"ESC[31m">> \o s \o <<"ESC[39m">>

yellow(s) == <<"ESC[33m">> \o s \o <<"ESC[39m">>

AnsiCodes == {"ESC[1m", "ESC[2m", "ESC[22m", "ESC[31m", "ESC[32m", "ESC[33m",
              "ESC[34m", "ESC[35m", "ESC[36m", "ESC[39m", "ESC[90m"}

IsText(tok) == tok \notin AnsiCodes

\* stripAnsi(s)
stripAnsi(s) == SelectSeq(s, IsText)

RECURSIVE trimStart(_)
trimStart(s) == IF s # <<>> /\ Head(s) = " " THEN trimStart(Tail(s)) ELSE s

RECURSIVE trimEnd(_)
trimEnd(s) ==
    IF s # <<>> /\ s[Len(s)] = " " THEN trimEnd(SubSeq(s, 1, Len(s) - 1)) ELSE s

\* String.prototype.trim
trim(s) == trimEnd(trimStart(s))

\* the tokens [A-Z0-9_]+ is made of
KeyTokens == {"A", "B"}

\* isValidKey that accepts every key
isValidKey_any(k) == TRUE

\* isValidKey(key): /^[A-Z0-9_]+$/
isValidKey(k) == k # <<>> /\ \A i \in 1..Len(k) : k[i] \in KeyTokens

\* hasNewline(val): /\r|\n/
hasNewline(val) == \E i \in 1..Len(val) : val[i] \in {"\r", "\n"}

empty == <<>>

\* a preset name that reads like a menu entry: quickenv set Cancel A 1
Cancel == <<"Cancel">>

\* every name and key of the model in the order of Array.prototype.sort
SortOrder == <<empty, <<"3">>, <<"A">>, <<"B">>, Cancel, multi, dev, prod, qa, staging>>

Rank(x) == IndexOf(SortOrder, x)

RECURSIVE SortSet(_)
\* the members of S as a sorted array
SortSet(S) ==
    IF S = {} THEN <<>>
    ELSE LET m == CHOOSE x \in S : \A y \in S : Rank(x) <= Rank(y)
         IN <<m>> \o SortSet(S \ {m})

\* Object.keys(obj).sort()
SortedKeys(obj) == SortSet(DOMAIN obj)

\* obj[k] = v
Put(obj, k, v) == [x \in (DOMAIN obj) \cup {k} |-> IF x = k THEN v ELSE obj[x]]

\* delete obj[k]
Delete(obj, k) == [x \in (DOMAIN obj) \ {k} |-> obj[x]]

\* an object with no keys
NoVars == <<>>

\* a property every object inherits from Object.prototype
toString == <<"toString">>

ObjectPrototypeKeys == {toString}

\* !!cfg.envs[name]: an own property (a preset), or a function that cfg.envs
\* inherits from Object.prototype
HasPreset(envs, name) == name \in DOMAIN envs \/ name \in ObjectPrototypeKeys

\* the config files a process may start from
InitialConfigs ==
    {DefaultConfig,
     [current |-> JSStr(dev),
      envs |-> (dev :> (<<"A">> :> <<"1">>)) @@ (prod :> NoVars)],
     [current |-> JSNull,
      envs |-> (empty :> (<<"A">> :> <<"1">>)) @@ (multi :> NoVars)],
     [current |-> JSStr(Cancel),
      envs |-> (Cancel :> (<<"A">> :> <<"1">>))]}

\* the files a process may find at the config path
InitialFiles == {File(c) : c \in InitialConfigs} \cup {NoFile} \cup BrokenFiles

\* fs.writeFileSync with CONFIG_PATH in the place of tmp: the config file is truncated
writeFileSync_open_inPlace(s) == [s EXCEPT !.disk = Other("blank"), !.tmp = Other("blank")]

\* fs.writeFileSync(tmp, data), first half: the temp file is created, empty
writeFileSync_open(s) == [s EXCEPT !.tmp = Other("blank")]

\* fs.writeFileSync(tmp, data), in between: some of the data is in the temp file
writeFileSync_part(s) == [s EXCEPT !.tmp = Other("partial")]

\* fs.writeFileSync(tmp, data), second half: the data is in the temp file
writeFileSync_data(s) == [s EXCEPT !.tmp = File(s.cfg)]

\* fs.renameSync(tmp, CONFIG_PATH): the path now names the temp file's content
renameSync(s) == [s EXCEPT !.disk = s.tmp, !.tmp = NoFile]

\* writeConfig(cfg)
writeConfig(s) == renameSync(writeFileSync_data(writeFileSync_open(s)))

\* the locals of a command function go out of scope
Leave(s) ==
    [s EXCEPT !.cfg = DefaultConfig, !.names = <<>>, !.presetName = JSNull, !.key = <<>>]

\* process.exit(code), or the end of main with nothing left to run
Exit(s, code) == [Leave(s) EXCEPT !.pc = "exit", !.exitCode = code, !.inRoot = FALSE]

\* readConfig(): the config of the file, the default config when there is no file
\* or a blank one, the corruption error and exit status 1 when JSON.parse throws or
\* gives no object
readConfig(s) ==
    CASE s.disk.file \in {"absent", "blank"} -> [s EXCEPT !.cfg = DefaultConfig]
      [] s.disk.file = "config" ->
            [s EXCEPT !.cfg = [current |-> s.disk.current, envs |-> s.disk.envs]]
      [] s.disk.file = "envsNotObject" ->
            [s EXCEPT !.cfg = [current |-> s.disk.current, envs |-> <<>>]]
      [] OTHER -> Exit(s, 1)

\* process.exit was called
Exited(s) == s.pc = "exit"

\* the command waits for the promise of the selector, or for a line of input
Await(s, label) == [s EXCEPT !.pc = label]

\* a caller takes the result of the session: the session is dropped, the branch noted
Taken(s, branch) ==
    [Fresh(s) EXCEPT !.handled = [outcome |-> s.outcome, as |-> branch]]

\* the menu of cmdRootInteractive
RootMenu ==
    <<[cmd |-> "list", desc |-> "List all presets"],
      [cmd |-> "use", desc |-> "Interactively choose and export"],
      [cmd |-> "show", desc |-> "Show variables for a preset"],
      [cmd |-> "set", desc |-> "Interactive set variables"],
      [cmd |-> "edit", desc |-> "Interactive edit variables (select preset/KEY)"],
      [cmd |-> "del", desc |-> "Interactive delete key or entire preset"],
      [cmd |-> "current", desc |-> "Print current preset name"],
      [cmd |-> "help", desc |-> "Show usage"],
      [cmd |-> "exit", desc |-> "Exit"]>>

\* `${c.cyan(cmd)} ${c.dim("-- " + desc)}`
RootLabels ==
    [i \in 1..Len(RootMenu) |->
        cyan(<<RootMenu[i].cmd>>) \o <<" ">> \o dim(<<"-- ", RootMenu[i].desc>>)]

\* s.split(" -- ")[0]
SplitHead(s) ==
    LET cuts == {i \in 1..(Len(s) - 1) : s[i] = " " /\ s[i + 1] = "-- "}
    IN IF cuts = {} THEN s
       ELSE SubSeq(s, 1, (CHOOSE i \in cuts : \A j \in cuts : i <= j) - 1)

\* cmdRootInteractive: the top of its loop
cmdRootInteractive(s) ==
    Await(selectMenuInteractively([s EXCEPT !.inRoot = TRUE], RootLabels,
                                  <<"Select a command:">>, 0),
          "cmdRootInteractive.picked")

\* a command function returns: to the loop of cmdRootInteractive, or main ends
Return(s) == IF s.inRoot THEN cmdRootInteractive(Leave(s)) ELSE Exit(s, 0)

\* Math.max(0, cfg.current ? names.indexOf(cfg.current) : 0)
CurrentIndex(c, nms) ==
    Max(0, IF ~Falsy(c.current) THEN IndexOf(nms, c.current.val) ELSE 0)

\* cmdList, up to the await
cmdList(s) ==
    LET r == readConfig(s)
        nms == SortedKeys(r.cfg.envs)
    IN IF Exited(r) THEN r ELSE
       IF Len(nms) = 0
       THEN Return(r)
       ELSE Await(selectMenuInteractively([r EXCEPT !.names = nms], nms,
                                          <<"Select a preset:">>,
                                          CurrentIndex(r.cfg, nms)),
                  "cmdList.picked")

\* cmdList after the await: the plain list when nothing was picked, else the preset
cmdList_picked(s) ==
    IF Falsy(s.result)
    THEN Return(Taken(s, "absent"))
    ELSE Return(Taken(s, "picked"))

RECURSIVE replaceQuotes(_)
\* s.replace(/'/g, "'\\''"): every ' becomes the four characters '\''
replaceQuotes(str) ==
    IF str = <<>> THEN <<>>
    ELSE (IF Head(str) = "'" THEN <<"'", "\\", "'", "'">> ELSE <<Head(str)>>)
         \o replaceQuotes(Tail(str))

\* shellQuote without the replacement of the quotes inside
shellQuote_noEscape(value) == <<"'">> \o value \o <<"'">>

\* shellQuote(value)
shellQuote(value) == <<"'">> \o replaceQuotes(value) \o <<"'">>

\* `export ${k}=${shellQuote(v)};`
ExportLine(k, v) == <<"export ">> \o k \o <<"=">> \o shellQuote(v) \o <<";">>

\* Object.entries(vars).map(...).join("\n"), and a line break after it unless empty
Exports(vs) ==
    LET ks == SortedKeys(vs)
        text == Join([i \in 1..Len(ks) |-> ExportLine(ks[i], vs[ks[i]])], <<"\n">>)
    IN text \o (IF text # <<>> THEN <<"\n">> ELSE <<>>)

\* cmdUse with the save moved before the checks of the keys and values
cmdUse_apply_saveFirst(s, name) ==
    IF ~HasPreset(s.cfg.envs, name)
    THEN Exit(s, 1)
    ELSE LET vs == IF name \in DOMAIN s.cfg.envs THEN s.cfg.envs[name] ELSE NoVars
             w == writeConfig([s EXCEPT !.cfg.current = JSStr(name),
                                        !.presetName = JSStr(name)])
         IN IF \E k \in DOMAIN vs : ~isValidKey(k) \/ hasNewline(vs[k])
            THEN Exit(w, 1)
            ELSE Return(stdoutWrite(w, Exports(vs)))

\* cmdUse from the check of cfg.envs[name] on
cmdUse_apply(s, name) ==
    IF ~HasPreset(s.cfg.envs, name)
    THEN Exit(s, 1)
    ELSE LET vs == IF name \in DOMAIN s.cfg.envs THEN s.cfg.envs[name] ELSE NoVars
         IN IF \E k \in DOMAIN vs : ~isValidKey(k) \/ hasNewline(vs[k])
            THEN Exit(s, 1)
            ELSE Return(stdoutWrite(writeConfig([s EXCEPT !.cfg.current = JSStr(name),
                                                          !.presetName = JSStr(name)]),
                                    Exports(vs)))

\* cmdUse(name), up to the await
cmdUse(s, name) ==
    LET r == readConfig(s)
        nms == SortedKeys(r.cfg.envs)
    IN IF Exited(r) THEN r ELSE
       IF Falsy(name)
       THEN IF Len(nms) = 0
            THEN Exit(r, 1)
            ELSE Await(selectPresetInteractively([r EXCEPT !.names = nms], nms,
                                                 r.cfg.current),
                       "cmdUse.picked")
       ELSE cmdUse_apply(r, name.val)

\* cmdUse after the await
cmdUse_picked(s) ==
    IF Falsy(s.result)
    THEN Exit(Taken(s, "absent"), 1)
    ELSE cmdUse_apply(Taken(s, "picked"), s.result.val)

\* cmdShow(name)
cmdShow(s, name) ==
    LET r == readConfig(s)
    IN IF Exited(r) THEN r ELSE
       IF Falsy(name) \/ ~HasPreset(r.cfg.envs, name.val)
       THEN Exit(r, 1)
       ELSE Return(r)

\* cmdCurrent()
cmdCurrent(s) ==
    LET r == readConfig(s)
    IN IF Exited(r) THEN r ELSE
       IF Falsy(r.cfg.current) THEN Exit(r, 1) ELSE Return(r)

\* case "show" of cmdRootInteractive, up to the await
cmdRootInteractive_show(s) ==
    LET r == readConfig(s)
        nms == SortedKeys(r.cfg.envs)
    IN IF Exited(r) THEN r ELSE
       IF Len(nms) = 0
       THEN Return(r)
       ELSE Await(selectPresetInteractively([r EXCEPT !.names = nms], nms,
                                            r.cfg.current),
                  "cmdRootInteractive.show")

\* case "show" of cmdRootInteractive after the await
cmdRootInteractive_shown(s) ==
    IF Falsy(s.result)
    THEN Return(Taken(s, "absent"))
    ELSE cmdShow(Taken(s, "picked"), s.result)

\* the tokens that hold the text the callers look for with includes()
TokensWith(needle) ==
    CASE needle = "Create new preset" -> {"Create new preset..."}
      [] needle = "Create KEY" -> {"Create KEY..."}
      [] needle = "Delete entire preset" -> {"Delete entire preset..."}
      [] OTHER -> {}

\* plain.includes(needle)
Includes(plain, needle) == \E i \in 1..Len(plain) : plain[i] \in TokensWith(needle)

\* ans.trim().toLowerCase() is "y" or "yes"
IsYes(ans) == trim(ans) \in {<<"y">>, <<"Y">>, <<"yes">>, <<"YES">>, <<"Yes">>}

Digits == ("1" :> 1) @@ ("2" :> 2) @@ ("3" :> 3) @@ ("4" :> 4)

\* Number.isInteger(Number(trimmed))
IsIntegerText(trimmed) ==
    trimmed = <<>> \/ (Len(trimmed) = 1 /\ trimmed[1] \in DOMAIN Digits)

\* Number(trimmed), where it is an integer
NumberOf(trimmed) == IF trimmed = <<>> THEN 0 ELSE Digits[trimmed[1]]

\* if (!cfg.envs[name]) cfg.envs[name] = {}
EnsurePreset(envs, name) == IF HasPreset(envs, name) THEN envs ELSE Put(envs, name, NoVars)

\* cfg.envs[name] || {}
VarsOf(c, name) == IF name \in DOMAIN c.envs THEN c.envs[name] ELSE NoVars

\* what the user may type at a prompt
YesNoAnswers == {<<"y">>, <<"n">>}

KeyAnswers == {<<"A">>, <<"B">>, <<"a">>}

ValueAnswers == {<<"2">>, <<>>, <<"-">>}

SetValueAnswers == {<<"2">>}

NameAnswers == {qa, dev, <<>>}

IndexOrNameAnswers == {<<"1">>, <<"2">>, <<"3">>, qa, dev, <<>>}

(***************************************************************************)
(* cmdSetInteractive                                                       *)
(***************************************************************************)
PresetOptions(nms) == nms \o <<green(<<"Create new preset...">>), dim(<<"Cancel">>)>>

NextActions == <<<<"Add another key">>, <<"Change preset">>, <<"Finish">>>>

\* the top of the key loop: Enter KEY
cmdSetInteractive_loop(s) == Await(s, "cmdSetInteractive.key")

\* const next = await selectMenuInteractively(["Add another key", ...])
cmdSetInteractive_askNext(s) ==
    Await(selectMenuInteractively(s, NextActions,
                                  <<"Next action for ">> \o s.presetName.val \o <<":">>, 0),
          "cmdSetInteractive.next")

\* cmdSetInteractive, up to its first await
cmdSetInteractive(s) ==
    LET r == [readConfig(s) EXCEPT !.presetName = JSNull]
        nms == SortedKeys(r.cfg.envs)
    IN IF Exited(r) THEN r ELSE
       IF Len(nms) = 0
       THEN Await([r EXCEPT !.names = nms], "cmdSetInteractive.firstName")
       ELSE Await(selectMenuInteractively([r EXCEPT !.names = nms], PresetOptions(nms),
                                          <<"Select a preset for setting variables:">>,
                                          CurrentIndex(r.cfg, nms)),
                  "cmdSetInteractive.sel")

\* a new preset name was typed: at the first prompt, or after Create new preset
cmdSetInteractive_newName(s, ans) ==
    LET p == trim(ans)
    IN IF p = <<>>
       THEN Return(s)
       ELSE cmdSetInteractive_loop([s EXCEPT !.presetName = JSStr(p),
                                            !.cfg.envs = EnsurePreset(@, p)])

\* after await selectMenuInteractively(opts, ...)
cmdSetInteractive_sel(s) ==
    IF Falsy(s.result)
    THEN Await(Taken(s, "absent"), "cmdSetInteractive.indexOrName")
    ELSE LET choice == stripAnsi(s.result.val)
             d == Taken(s, "picked")
         IN IF choice = <<"Cancel">> THEN Return(d)
            ELSE IF Includes(choice, "Create new preset")
            THEN Await(d, "cmdSetInteractive.newName")
            ELSE cmdSetInteractive_loop([d EXCEPT !.presetName = JSStr(choice)])

\* the text fallback: Enter index or name
cmdSetInteractive_indexOrName(s, ans) ==
    LET trimmed == trim(ans)
        isInt == IsIntegerText(trimmed)
        num == IF isInt THEN NumberOf(trimmed) ELSE 0
    IN IF isInt /\ num >= 1 /\ num <= Len(s.names)
       THEN cmdSetInteractive_loop([s EXCEPT !.presetName = JSStr(s.names[num])])
       ELSE IF isInt /\ num = Len(s.names) + 1
       THEN Await(s, "cmdSetInteractive.newName")
       ELSE IF trimmed # <<>>
       THEN IF ~HasPreset(s.cfg.envs, trimmed)
            THEN Await([s EXCEPT !.key = trimmed], "cmdSetInteractive.confirmCreate")
            ELSE cmdSetInteractive_loop([s EXCEPT !.presetName = JSStr(trimmed)])
       ELSE Return(s)

\* Preset does not exist. Create it? (key holds trimmed)
cmdSetInteractive_confirmCreate(s, ans) ==
    IF ~IsYes(ans)
    THEN Return(s)
    ELSE cmdSetInteractive_loop([s EXCEPT !.cfg.envs = Put(@, s.key, NoVars),
                                         !.presetName = JSStr(s.key)])

\* Enter KEY / Re-enter KEY
cmdSetInteractive_key(s, ans) ==
    LET k == trim(ans)
    IN IF ~isValidKey(k)
       THEN Await(s, "cmdSetInteractive.key")
       ELSE IF s.presetName.val \notin DOMAIN s.cfg.envs
       THEN Exit(s, 1)
       ELSE IF k \in DOMAIN s.cfg.envs[s.presetName.val]
       THEN Await([s EXCEPT !.key = k], "cmdSetInteractive.overwrite")
       ELSE Await([s EXCEPT !.key = k], "cmdSetInteractive.value")

\* KEY exists. Overwrite?
cmdSetInteractive_overwrite(s, ans) ==
    IF ~IsYes(ans)
    THEN cmdSetInteractive_askNext(s)
    ELSE Await(s, "cmdSetInteractive.value")

\* Enter VALUE
cmdSetInteractive_value(s, ans) ==
    LET v == trim(ans)
        p == s.presetName.val
    IN IF hasNewline(v)
       THEN Return(s)
       ELSE cmdSetInteractive_askNext(
                writeConfig([s EXCEPT !.cfg.envs = Put(@, p, Put(@[p], s.key, v))]))

\* after await selectMenuInteractively(["Add another key", "Change preset", "Finish"])
cmdSetInteractive_next(s) ==
    LET d == Taken(s, IF Falsy(s.result) THEN "absent" ELSE "picked")
        names2 == SortedKeys(s.cfg.envs)
    IN IF ~Falsy(s.result) /\ stripAnsi(s.result.val) = <<"Change preset">>
       THEN Await(selectMenuInteractively(d, PresetOptions(names2), <<"Select a preset:">>,
                                          CurrentIndex(s.cfg, names2)),
                  "cmdSetInteractive.change")
       ELSE IF Falsy(s.result) \/ stripAnsi(s.result.val) = <<"Finish">>
       THEN Return(d)
       ELSE cmdSetInteractive_loop(d)

\* after await selectMenuInteractively(opts2, ...)
cmdSetInteractive_change(s) ==
    LET d == Taken(s, IF Falsy(s.result) THEN "absent" ELSE "picked")
        choice2 == stripAnsi(s.result.val)
    IN IF ~Falsy(s.result) /\ choice2 # <<>> /\ choice2 # <<"Cancel">>
       THEN IF Includes(choice2, "Create new preset")
            THEN Await(d, "cmdSetInteractive.newName2")
            ELSE cmdSetInteractive_loop([d EXCEPT !.presetName = JSStr(choice2)])
       ELSE cmdSetInteractive_loop(d)

\* Enter new preset name, after Change preset
cmdSetInteractive_newName2(s, ans) ==
    LET p2 == trim(ans)
    IN IF p2 # <<>>
       THEN cmdSetInteractive_loop([s EXCEPT !.presetName = JSStr(p2),
                                            !.cfg.envs = EnsurePreset(@, p2)])
       ELSE cmdSetInteractive_loop(s)

(***************************************************************************)
(* cmdEditInteractive                                                      *)
(***************************************************************************)
\* the top of the outer loop: pick the preset
cmdEditInteractive_outer(s) ==
    Await(selectPresetInteractively(s, s.names, s.cfg.current), "cmdEditInteractive.picked")

\* the top of the inner loop: pick the key
cmdEditInteractive_inner(s) ==
    LET name == s.presetName.val
        ks == SortedKeys(VarsOf(s.cfg, name))
        its == ks \o <<green(<<"Create KEY...">>), yellow(<<"Back">>), dim(<<"Cancel">>)>>
    IN Await(selectMenuInteractively(s, its,
                                     <<"Select a KEY to edit (preset: ">> \o name \o <<")">>, 0),
             "cmdEditInteractive.ret")

\* cmdEditInteractive, up to its first await
cmdEditInteractive(s) ==
    LET r == readConfig(s)
        nms == SortedKeys(r.cfg.envs)
    IN IF Exited(r) THEN r ELSE
       IF Len(nms) = 0
       THEN Return(r)
       ELSE cmdEditInteractive_outer([r EXCEPT !.names = nms])

\* after await selectPresetInteractively(names, cfg.current)
cmdEditInteractive_picked(s) ==
    IF Falsy(s.result)
    THEN Return(Taken(s, "absent"))
    ELSE cmdEditInteractive_inner([Taken(s, "picked") EXCEPT !.presetName = s.result])

\* after await selectMenuInteractively(items, ...)
cmdEditInteractive_ret(s) ==
    IF Falsy(s.result)
    THEN Return(Taken(s, "absent"))
    ELSE LET plain == stripAnsi(s.result.val)
             d == Taken(s, "picked")
         IN IF plain = <<"Cancel">> THEN Return(d)
            ELSE IF plain = <<"Back">> THEN cmdEditInteractive_outer(d)
            ELSE IF Includes(plain, "Create KEY") THEN Await(d, "cmdEditInteractive.newKey")
            ELSE IF s.presetName.val \notin DOMAIN s.cfg.envs THEN Exit(d, 1)
            ELSE Await([d EXCEPT !.key = plain], "cmdEditInteractive.value")

\* Enter new KEY / Re-enter KEY
cmdEditInteractive_newKey(s, ans) ==
    LET k == trim(ans)
    IN IF ~isValidKey(k)
       THEN Await(s, "cmdEditInteractive.newKey")
       ELSE IF s.presetName.val \notin DOMAIN s.cfg.envs
       THEN Exit(s, 1)
       ELSE IF k \in DOMAIN s.cfg.envs[s.presetName.val]
       THEN Await([s EXCEPT !.key = k], "cmdEditInteractive.overwrite")
       ELSE Await([s EXCEPT !.key = k], "cmdEditInteractive.newValue")

\* KEY exists. Overwrite?
cmdEditInteractive_overwrite(s, ans) ==
    IF ~IsYes(ans) THEN Return(s) ELSE Await(s, "cmdEditInteractive.newValue")

\* cfg.envs[name][key] = value; writeConfig(cfg); back to the key menu
cmdEditInteractive_save(s, v) ==
    LET p == s.presetName.val
    IN IF hasNewline(v)
       THEN Return(s)
       ELSE cmdEditInteractive_inner(
                writeConfig([s EXCEPT !.cfg.envs = Put(@, p, Put(@[p], s.key, v))]))

\* Enter VALUE, for a new key
cmdEditInteractive_newValue(s, ans) == cmdEditInteractive_save(s, trim(ans))

\* Enter new value (Enter to keep, '-' to clear), for an existing key
cmdEditInteractive_value(s, ans) ==
    LET v == trim(ans)
        vs == s.cfg.envs[s.presetName.val]
    IN IF v = <<>>
       THEN cmdEditInteractive_save(s, vs[s.key])
       ELSE IF v = <<"-">> THEN cmdEditInteractive_save(s, <<>>)
       ELSE cmdEditInteractive_save(s, v)

(***************************************************************************)
(* cmdDelInteractive                                                       *)
(***************************************************************************)
DeleteOptions == <<red(<<"Delete entire preset...">>), yellow(<<"Back">>), dim(<<"Cancel">>)>>

\* the top of the outer loop: pick the preset
cmdDelInteractive_outer(s) ==
    Await(selectPresetInteractively(s, s.names, s.cfg.current), "cmdDelInteractive.picked")

\* selectKeyForDeleteInteractively(presetName, keys), up to the await
selectKeyForDeleteInteractively(s, name, ks) ==
    selectMenuInteractively(s, ks \o DeleteOptions,
                            <<"Select a KEY to delete (preset: ">> \o name \o <<")">>, 0)

\* the top of the inner loop
cmdDelInteractive_inner(s) ==
    LET name == s.presetName.val
        ks == SortedKeys(VarsOf(s.cfg, name))
    IN IF Len(ks) = 0
       THEN Await(selectMenuInteractively(s, DeleteOptions,
                                          <<"Preset ">> \o name \o <<" has no variables">>, 0),
                  "cmdDelInteractive.opt")
       ELSE Await(selectKeyForDeleteInteractively(s, name, ks), "cmdDelInteractive.selection")

\* cmdDelInteractive, up to its first await
cmdDelInteractive(s) ==
    LET r == readConfig(s)
        nms == SortedKeys(r.cfg.envs)
    IN IF Exited(r) THEN r ELSE
       IF Len(nms) = 0
       THEN Return(r)
       ELSE cmdDelInteractive_outer([r EXCEPT !.names = nms])

\* after await selectPresetInteractively(names, cfg.current)
cmdDelInteractive_picked(s) ==
    IF Falsy(s.result)
    THEN Return(Taken(s, "absent"))
    ELSE cmdDelInteractive_inner([Taken(s, "picked") EXCEPT !.presetName = s.result])

\* after await selectMenuInteractively([Delete entire preset, Back, Cancel])
cmdDelInteractive_opt(s) ==
    IF Falsy(s.result)
    THEN Return(Taken(s, "absent"))
    ELSE LET plain == stripAnsi(s.result.val)
             d == Taken(s, "picked")
         IN IF plain = <<"Cancel">> THEN Return(d)
            ELSE IF plain = <<"Back">> THEN cmdDelInteractive_outer(d)
            ELSE IF Includes(plain, "Delete entire preset")
            THEN Await(d, "cmdDelInteractive.confirmPreset")
            ELSE cmdDelInteractive_inner(d)

\* after await selectKeyForDeleteInteractively(name, keys)
cmdDelInteractive_selection(s) ==
    IF s.result = JSNull
    THEN Return(Taken(s, "absent"))
    ELSE LET plain == stripAnsi(s.result.val)
             d == Taken(s, "picked")
         IN IF plain = <<"Cancel">> THEN Return(d)
            ELSE IF plain = <<"Back">> THEN cmdDelInteractive_outer(d)
            ELSE IF Includes(plain, "Delete entire preset")
            THEN Await(d, "cmdDelInteractive.confirmPreset")
            ELSE Await([d EXCEPT !.key = plain], "cmdDelInteractive.confirmKey")

\* cmdDelInteractive_confirmPreset without the return when no preset is left
cmdDelInteractive_confirmPreset_noEmptyCheck(s, ans) ==
    LET name == s.presetName.val
        c == [current |-> IF s.cfg.current = JSStr(name) THEN JSNull ELSE s.cfg.current,
              envs |-> Delete(s.cfg.envs, name)]
        w == writeConfig([s EXCEPT !.cfg = c, !.names = SortedKeys(c.envs)])
    IN IF ~IsYes(ans) THEN Return(s)
       ELSE cmdDelInteractive_outer(w)

\* Confirm delete the entire preset? (y/N)
cmdDelInteractive_confirmPreset(s, ans) ==
    LET name == s.presetName.val
        c == [current |-> IF s.cfg.current = JSStr(name) THEN JSNull ELSE s.cfg.current,
              envs |-> Delete(s.cfg.envs, name)]
        w == writeConfig([s EXCEPT !.cfg = c, !.names = SortedKeys(c.envs)])
    IN IF ~IsYes(ans) THEN Return(s)
       ELSE IF Len(w.names) = 0 THEN Return(w)
       ELSE cmdDelInteractive_outer(w)

\* Confirm delete name.key? (y/N)
cmdDelInteractive_confirmKey(s, ans) ==
    LET name == s.presetName.val
    IN IF ~IsYes(ans) THEN Return(s)
       ELSE IF name \notin DOMAIN s.cfg.envs THEN Exit(s, 1)
       ELSE cmdDelInteractive_inner(
                writeConfig([s EXCEPT !.cfg.envs = Put(@, name, Delete(@[name], s.key))]))

(***************************************************************************)
(* cmdRootInteractive and main                                             *)
(***************************************************************************)
\* after await selectMenuInteractively(labels, ...): the switch
cmdRootInteractive_picked(s) ==
    IF Falsy(s.result)
    THEN Exit(Taken(s, "absent"), 0)
    ELSE LET choice == SplitHead(stripAnsi(s.result.val))
             d == Taken(s, "picked")
         IN CASE choice = <<"list">> -> cmdList(d)
              [] choice = <<"use">> -> cmdUse(d, JSNull)
              [] choice = <<"show">> -> cmdRootInteractive_show(d)
              [] choice = <<"set">> -> cmdSetInteractive(d)
              [] choice = <<"edit">> -> cmdEditInteractive(d)
              [] choice = <<"del">> -> cmdDelInteractive(d)
              [] choice = <<"current">> -> cmdCurrent(d)
              [] choice = <<"help">> -> Return(d)
              [] OTHER -> Exit(d, 0)

\* cmdSetNonInteractive(presetName, key, value)
cmdSetNonInteractive(s, name, k, value) ==
    LET r == readConfig(s)
        e1 == EnsurePreset(r.cfg.envs, name.val)
        e2 == IF name.val \in DOMAIN e1
              THEN Put(e1, name.val, Put(e1[name.val], k.val, value.val))
              ELSE e1
    IN IF Exited(r) THEN r ELSE
       IF Falsy(name) THEN Exit(r, 1)
       ELSE IF ~isValidKey(k.val) THEN Exit(r, 1)
       ELSE IF hasNewline(value.val) THEN Exit(r, 1)
       ELSE Return(writeConfig([r EXCEPT !.cfg.envs = e2]))

\* cmdDel(name, key)
cmdDel(s, name, k) ==
    LET r == readConfig(s)
        c == [current |-> IF r.cfg.current = name THEN JSNull ELSE r.cfg.current,
              envs |-> Delete(r.cfg.envs, name.val)]
    IN IF Exited(r) THEN r ELSE
       IF Falsy(name) \/ ~HasPreset(r.cfg.envs, name.val) THEN Exit(r, 1)
       ELSE IF Falsy(k) THEN Return(writeConfig([r EXCEPT !.cfg = c]))
       ELSE IF k.val \notin DOMAIN VarsOf(r.cfg, name.val) THEN Exit(r, 1)
       ELSE Return(writeConfig(
                [r EXCEPT !.cfg.envs = Put(@, name.val, Delete(@[name.val], k.val))]))

\* the command lines of the model
Argvs ==
    {Argv(c, JSNull, JSNull, JSNull) : c \in {"root", "list", "use", "set", "edit", "del"}}
    \cup {Argv("use", JSStr(n), JSNull, JSNull) : n \in {dev, qa, toString}}
    \cup {Argv("set", JSStr(n), JSStr(<<"A">>), JSStr(<<"2">>)) : n \in {dev, qa, toString, empty}}
    \cup {Argv("set", JSStr(dev), JSStr(k), JSStr(v)) :
                k \in {<<"A">>, <<"a">>, <<>>}, v \in {<<>>, <<"x", "\n", "y">>}}
    \cup {Argv("del", JSStr(n), JSStr(<<"A">>), JSNull) : n \in {dev, prod, qa, toString}}
    \cup {Argv("del", JSStr(dev), JSStr(<<>>), JSNull)}

\* main(): the switch on argv[0]
main(s, argv) ==
    CASE argv.cmd = "root" -> cmdRootInteractive(s)
      [] argv.cmd = "list" -> cmdList(s)
      [] argv.cmd = "use" -> cmdUse(s, argv.name)
      [] argv.cmd = "set" -> IF argv.value.tag = "str"
                             THEN cmdSetNonInteractive(s, argv.name, argv.key, argv.value)
                             ELSE cmdSetInteractive(s)
      [] argv.cmd = "edit" -> cmdEditInteractive(s)
      [] argv.cmd = "del" -> IF Falsy(argv.name) \/ Falsy(argv.key)
                             THEN cmdDelInteractive(s)
                             ELSE cmdDel(s, argv.name, argv.key)
      [] OTHER -> Exit(s, 1)
(***************************************************************************)
(* The whole program: one process, from main to its exit                   *)
(***************************************************************************)
InitCmd == \E e \in Envs, d \in InitialFiles : Idle(d, e)

\* the process starts: main() with the arguments of the command line
Main ==
    /\ pc = "start"
    /\ kind = "none"
    /\ \E argv \in Argvs : Commit(main([Cur EXCEPT !.args = argv], argv))
    /\ UNCHANGED env

\* the history of a session that only the properties of the selector read
Forget(s) ==
    [s EXCEPT !.keys = 0, !.downs = 0, !.ups = 0, !.renders = 0, !.lastKey = NoKey,
              !.effects = <<>>]

\* a key event reaches the listener while a command awaits the selector; the
\* session's history is not kept, so a session may take any number of keys
CmdKeypress(k) ==
    /\ kind # "none"
    /\ listening
    /\ flowing
    /\ Commit(Forget(onKeypress([Cur EXCEPT !.handled = [outcome |-> "none", as |-> "none"]],
                                 k, NoFaults)))
    /\ UNCHANGED env

CmdKey ==
    \E k \in Keys : CmdKeypress(k)

\* the promise of the selector has resolved and the awaiting command goes on
Resumed(label) ==
    /\ pc = label
    /\ kind # "none"
    /\ ~pending

\* a line of input reaches the question the command waits on
Asked(label) ==
    /\ pc = label
    /\ answered < MaxLines

Line(s) == [s EXCEPT !.answered = @ + 1, !.handled = [outcome |-> "none", as |-> "none"]]

After_cmdRootInteractive_picked ==
    /\ Resumed("cmdRootInteractive.picked")
    /\ Falsy(result) \/ commands < MaxCommands
    /\ Commit(cmdRootInteractive_picked([Cur EXCEPT !.commands = @ + 1, !.stdout = <<>>]))
    /\ UNCHANGED env

After_cmdRootInteractive_shown ==
    /\ Resumed("cmdRootInteractive.show")
    /\ Commit(cmdRootInteractive_shown(Cur))
    /\ UNCHANGED env

After_cmdList_picked ==
    /\ Resumed("cmdList.picked")
    /\ Commit(cmdList_picked(Cur))
    /\ UNCHANGED env

After_cmdUse_picked ==
    /\ Resumed("cmdUse.picked")
    /\ Commit(cmdUse_picked(Cur))
    /\ UNCHANGED env

After_cmdSetInteractive_sel ==
    /\ Resumed("cmdSetInteractive.sel")
    /\ Commit(cmdSetInteractive_sel(Cur))
    /\ UNCHANGED env

After_cmdSetInteractive_next ==
    /\ Resumed("cmdSetInteractive.next")
    /\ Commit(cmdSetInteractive_next(Cur))
    /\ UNCHANGED env

After_cmdSetInteractive_change ==
    /\ Resumed("cmdSetInteractive.change")
    /\ Commit(cmdSetInteractive_change(Cur))
    /\ UNCHANGED env

After_cmdEditInteractive_picked ==
    /\ Resumed("cmdEditInteractive.picked")
    /\ Commit(cmdEditInteractive_picked(Cur))
    /\ UNCHANGED env

After_cmdEditInteractive_ret ==
    /\ Resumed("cmdEditInteractive.ret")
    /\ Commit(cmdEditInteractive_ret(Cur))
    /\ UNCHANGED env

After_cmdDelInteractive_picked ==
    /\ Resumed("cmdDelInteractive.picked")
    /\ Commit(cmdDelInteractive_picked(Cur))
    /\ UNCHANGED env

After_cmdDelInteractive_opt ==
    /\ Resumed("cmdDelInteractive.opt")
    /\ Commit(cmdDelInteractive_opt(Cur))
    /\ UNCHANGED env

After_cmdDelInteractive_selection ==
    /\ Resumed("cmdDelInteractive.selection")
    /\ Commit(cmdDelInteractive_selection(Cur))
    /\ UNCHANGED env

Answer_FirstName ==
    /\ Asked("cmdSetInteractive.firstName")
    /\ \E ans \in NameAnswers : Commit(cmdSetInteractive_newName(Line(Cur), ans))
    /\ UNCHANGED env

Answer_NewName ==
    /\ Asked("cmdSetInteractive.newName")
    /\ \E ans \in NameAnswers : Commit(cmdSetInteractive_newName(Line(Cur), ans))
    /\ UNCHANGED env

Answer_IndexOrName ==
    /\ Asked("cmdSetInteractive.indexOrName")
    /\ \E ans \in IndexOrNameAnswers : Commit(cmdSetInteractive_indexOrName(Line(Cur), ans))
    /\ UNCHANGED env

Answer_ConfirmCreate ==
    /\ Asked("cmdSetInteractive.confirmCreate")
    /\ \E ans \in YesNoAnswers : Commit(cmdSetInteractive_confirmCreate(Line(Cur), ans))
    /\ UNCHANGED env

Answer_SetKey ==
    /\ Asked("cmdSetInteractive.key")
    /\ \E ans \in KeyAnswers : Commit(cmdSetInteractive_key(Line(Cur), ans))
    /\ UNCHANGED env

Answer_SetOverwrite ==
    /\ Asked("cmdSetInteractive.overwrite")
    /\ \E ans \in YesNoAnswers : Commit(cmdSetInteractive_overwrite(Line(Cur), ans))
    /\ UNCHANGED env

Answer_SetValue ==
    /\ Asked("cmdSetInteractive.value")
    /\ \E ans \in SetValueAnswers : Commit(cmdSetInteractive_value(Line(Cur), ans))
    /\ UNCHANGED env

Answer_NewName2 ==
    /\ Asked("cmdSetInteractive.newName2")
    /\ \E ans \in NameAnswers : Commit(cmdSetInteractive_newName2(Line(Cur), ans))
    /\ UNCHANGED env

Answer_EditNewKey ==
    /\ Asked("cmdEditInteractive.newKey")
    /\ \E ans \in KeyAnswers : Commit(cmdEditInteractive_newKey(Line(Cur), ans))
    /\ UNCHANGED env

Answer_EditOverwrite ==
    /\ Asked("cmdEditInteractive.overwrite")
    /\ \E ans \in YesNoAnswers : Commit(cmdEditInteractive_overwrite(Line(Cur), ans))
    /\ UNCHANGED env

Answer_EditNewValue ==
    /\ Asked("cmdEditInteractive.newValue")
    /\ \E ans \in ValueAnswers : Commit(cmdEditInteractive_newValue(Line(Cur), ans))
    /\ UNCHANGED env

Answer_EditValue ==
    /\ Asked("cmdEditInteractive.value")
    /\ \E ans \in ValueAnswers : Commit(cmdEditInteractive_value(Line(Cur), ans))
    /\ UNCHANGED env

Answer_DelConfirmPreset ==
    /\ Asked("cmdDelInteractive.confirmPreset")
    /\ \E ans \in YesNoAnswers : Commit(cmdDelInteractive_confirmPreset(Line(Cur), ans))
    /\ UNCHANGED env

Answer_DelConfirmKey ==
    /\ Asked("cmdDelInteractive.confirmKey")
    /\ \E ans \in YesNoAnswers : Commit(cmdDelInteractive_confirmKey(Line(Cur), ans))
    /\ UNCHANGED env

NextCmd ==
    \/ Main
    \/ After_cmdRootInteractive_picked
    \/ After_cmdRootInteractive_shown
    \/ After_cmdList_picked
    \/ After_cmdUse_picked
    \/ After_cmdSetInteractive_sel
    \/ After_cmdSetInteractive_next
    \/ After_cmdSetInteractive_change
    \/ After_cmdEditInteractive_picked
    \/ After_cmdEditInteractive_ret
    \/ After_cmdDelInteractive_picked
    \/ After_cmdDelInteractive_opt
    \/ After_cmdDelInteractive_selection
    \/ Answer_FirstName
    \/ Answer_NewName
    \/ Answer_IndexOrName
    \/ Answer_ConfirmCreate
    \/ Answer_SetKey
    \/ Answer_SetOverwrite
    \/ Answer_SetValue
    \/ Answer_NewName2
    \/ Answer_EditNewKey
    \/ Answer_EditOverwrite
    \/ Answer_EditNewValue
    \/ Answer_EditValue
    \/ Answer_DelConfirmPreset
    \/ Answer_DelConfirmKey
    \/ CmdKey

SpecCmd == InitCmd /\ [][NextCmd]_vars

(***************************************************************************)
(* quickenv use: the runs of one command over stored values of every shape *)
(***************************************************************************)
MaxLen == 2

\* the characters of a stored value: the ones a shell treats specially, and a letter
Chars == {"'", " ", "$", ";", "\\", "a"}

RECURSIVE Strings(_)
\* the strings of at most n characters
Strings(n) ==
    IF n = 0 THEN {<<>>}
    ELSE Strings(n - 1) \cup {Append(str, ch) : str \in Strings(n - 1), ch \in Chars}

Values == Strings(MaxLen)

\* configs a use may find: a preset of two keys with any value, and hand-edited
\* files with a key outside [A-Z0-9_] or a value with a line break in it
UseConfigs ==
    {[current |-> JSNull,
      envs |-> (dev :> ((<<"A">> :> v) @@ (<<"B">> :> <<"1">>)))] : v \in Values}
    \cup {[current |-> JSStr(prod),
           envs |-> (dev :> (<<"a">> :> <<"1">>)) @@ (prod :> NoVars)],
          [current |-> JSStr(prod),
           envs |-> (dev :> (<<"A">> :> <<"x", "\n", "y">>)) @@ (prod :> NoVars)]}

UseFiles == InitialFiles \cup {File(c) : c \in UseConfigs}

\* quickenv use, quickenv use <name>
UseArgvs == {a \in Argvs : a.cmd = "use"}

InitUse == \E e \in Envs, d \in UseFiles : Idle(d, e)

MainUse ==
    /\ pc = "start"
    /\ kind = "none"
    /\ \E argv \in UseArgvs : Commit(main([Cur EXCEPT !.args = argv], argv))
    /\ UNCHANGED env

NextUse == MainUse \/ CmdKey \/ After_cmdUse_picked

SpecUse == InitUse /\ [][NextUse]_vars

(***************************************************************************)
(* writeConfig step by step: sequences of saves, and processes that die    *)
(***************************************************************************)
\* the files a save may find: a config, or none
SaveFiles == {File(c) : c \in InitialConfigs} \cup {NoFile}

\* the configs a command may save
SaveConfigs ==
    InitialConfigs \cup {[current |-> JSStr(qa), envs |-> (qa :> (<<"B">> :> <<"2">>))]}

InitSave == \E e \in Envs, d \in SaveFiles : Idle(d, e)

\* a command calls writeConfig(cfg)
Save ==
    /\ pc = "start"
    /\ \E c \in SaveConfigs : Commit([Cur EXCEPT !.cfg = c, !.pc = "writeConfig"])
    /\ UNCHANGED env

\* writeFileSync has opened the temp file
Save_open ==
    /\ pc = "writeConfig"
    /\ Commit([writeFileSync_open(Cur) EXCEPT !.pc = "writeConfig.opened"])
    /\ UNCHANGED env

\* writeFileSync has written a part of the data
Save_part ==
    /\ pc = "writeConfig.opened"
    /\ tmp.file = "blank"
    /\ Commit(writeFileSync_part(Cur))
    /\ UNCHANGED env

\* writeFileSync has written all of the data
Save_data ==
    /\ pc = "writeConfig.opened"
    /\ Commit([writeFileSync_data(Cur) EXCEPT !.pc = "writeConfig.written"])
    /\ UNCHANGED env

\* renameSync; the command that saved is over
Save_rename ==
    /\ pc = "writeConfig.written"
    /\ Commit([Leave(renameSync(Cur)) EXCEPT !.pc = "start"])
    /\ UNCHANGED env

\* the process dies inside writeConfig: its temp file stays as it is, and the next
\* process starts
Crash ==
    /\ pc \in {"writeConfig", "writeConfig.opened", "writeConfig.written"}
    /\ Commit([Leave(Cur) EXCEPT !.pc = "start"])
    /\ UNCHANGED env

NextSave == Save \/ Save_open \/ Save_part \/ Save_data \/ Save_rename \/ Crash

SpecSave == InitSave /\ [][NextSave]_vars

(***************************************************************************)
(* Properties                                                              *)
(***************************************************************************)
\* a session whose terminal was acquired
Opened == kind # "none" /\ renders > 0

\* the result of the session has been delivered to the promise
Resolved == kind # "none" /\ ~pending

\* a key event was delivered to the listener of an open session in this step
KeyHandled == pending /\ keys' = keys + 1

EnterKey(k) == k.has /\ (k.name = "return" \/ k.name = "enter")

EscapeKey(k) == k.has /\ (k.name = "escape" \/ (k.name = "c" /\ k.ctrl))

\* C1: every erase (of a render pass after the first, and of the exit) erases as
\* many lines as the render pass before it physically wrote; renderedLines is the
\* number of lines the last render pass physically wrote.
C1_EraseMatchesWritten ==
    /\ lastErase.n = lastErase.of
    /\ renderedLines > 0 => renderedLines = written

\* C2: on every exit path, failures of the terminal acquisition included, when the
\* result is delivered the block is erased, raw mode is off, the listener is removed
\* and no descriptor the selector opened itself is left open.
C2_CleanOnEveryExit ==
    Resolved =>
        /\ renderedLines = 0
        /\ lastErase.n = lastErase.of
        /\ ~rawMode
        /\ ~listening
        /\ ttyFd # "open"

\* C3: a session resolves at most once, and once it has resolved no key event
\* changes the index, renders, erases or resolves again.
C3_ResolvesOnce ==
    /\ [](resolveCalls <= 1)
    /\ [][(Resolved /\ kind' # "none")
            => UNCHANGED <<idx, renderedLines, renders, written, lastErase, result,
                           outcome, resolveCalls, keys>>]_vars

C3_Witness ==
    /\ Resolved
    /\ outcome = "picked"
    /\ resolveCalls = 1
    /\ downs > 0
    /\ keys < MaxKeys

\* C4: while a session is open the selected index is in [0, N-1], whatever initial
\* index or current preset the caller passed and whatever keys came.
C4_IndexInRange ==
    (kind # "none" /\ pending) => idx \in 0..(Len(items) - 1)

C4_Witness ==
    /\ kind = "menu"
    /\ pending
    /\ initialIndex > Len(items) - 1
    /\ ups > 0
    /\ idx \in 0..(Len(items) - 1)

\* C5: after d Downs and u Ups from index i the index is (i + d - u) mod N, each
\* of them followed by one render pass, and Enter resolves with the item at that
\* index.
C5_IndexIsSumModN ==
    Opened =>
        /\ idx = (idx0 + downs - ups) % Len(items)
        /\ renders = 1 + downs + ups
        /\ outcome = "picked" => result = JSStr(items[((idx0 + downs - ups) % Len(items)) + 1])

\* [dev, staging, prod] from index 1: Down, Down, Enter gives dev
C5_Witness ==
    /\ items = <<dev, staging, prod>>
    /\ idx0 = 1
    /\ downs = 2
    /\ ups = 0
    /\ outcome = "picked"
    /\ result = JSStr(dev)

\* C6: N Downs, or N Ups, bring the index back to where it started; on a list of
\* one item Up and Down leave the index alone and Enter resolves with the item.
C6_FullCycleReturns ==
    Opened =>
        /\ (downs = Len(items) /\ ups = 0) => idx = idx0
        /\ (ups = Len(items) /\ downs = 0) => idx = idx0
        /\ Len(items) = 1 =>
              /\ idx = 0
              /\ outcome = "picked" => result = JSStr(items[1])

C6_Witness ==
    /\ Len(items) = MaxItems
    /\ ups = MaxItems
    /\ downs = 0
    /\ idx0 = 1
    /\ idx = 1

\* C7: Enter at index i resolves with items[i]; no render pass happens at or after
\* it: the handler erases, restores the terminal, releases the handle, resolves.
C7_EnterPicksWithoutRender ==
    /\ [][(KeyHandled /\ EnterKey(lastKey'))
            => /\ ~pending'
               /\ outcome' = "picked"
               /\ result' = JSStr(items[idx + 1])
               /\ renders' = renders
               /\ effects' = <<"clear", "off", "setRawMode(false)", "pause">>
                             \o (IF needClose THEN <<"destroy">> ELSE <<>>)
                             \o <<"resolve">>]_vars
    /\ [][(outcome = "picked" /\ kind' # "none") => renders' = renders]_vars

C7_Witness ==
    /\ outcome = "picked"
    /\ EnterKey(lastKey)
    /\ needClose
    /\ idx = 2
    /\ result = JSStr(items[3])

\* C8: Escape or Ctrl+C in an open session, at any index and after any keys,
\* resolves with Cancelled, never with an item, and the terminal is not in raw mode.
C8_EscapeCancels ==
    [][(KeyHandled /\ EscapeKey(lastKey'))
         => /\ ~pending'
            /\ outcome' = "cancelled"
            /\ result' = JSNull
            /\ ~rawMode']_vars

C8_Witness ==
    /\ outcome = "cancelled"
    /\ lastKey.name = "c"
    /\ downs > 0
    /\ idx > 0
    /\ ~rawMode

\* C9: when standard input is no terminal and the controlling terminal cannot be
\* opened, the selector resolves at once, having rendered nothing, left raw mode off
\* and registered no key listener, and no caller of this process invokes the
\* selector again after that failure.
C9_FailsFastNoRetry ==
    /\ (kind # "none" /\ outcome = "failed") =>
          (~pending /\ written = 0 /\ renderedLines = 0 /\ ~rawMode /\ ~listening)
    /\ ~reinvoked

\* C10: the result a caller receives tells the three outcomes apart: the failure to
\* get a terminal does not arrive as the value a cancellation arrives as (null), and
\* no caller takes a picked item down the branch it takes when nothing was picked.
C10_OutcomesDistinct ==
    /\ (Resolved /\ outcome = "failed") => result # JSNull
    /\ handled.outcome = "picked" => handled.as = "picked"

\* a key event the selector has no branch for: no key descriptor, or a name that
\* is none of up, down, return, enter, escape, and not c with ctrl
OtherKey(k) ==
    \/ ~k.has
    \/ /\ k.name \notin {"up", "down", "return", "enter", "escape"}
       /\ ~(k.name = "c" /\ k.ctrl)

\* C16: a key event that is not Up, Down, Enter/Return, Escape or Ctrl+C (a plain c
\* and an event with no key descriptor included) leaves the session as it was: the
\* index, renderedLines, the terminal mode, the listener and the pending result are
\* unchanged, nothing is written and nothing is erased.
C16_OtherKeyIgnored ==
    [][(KeyHandled /\ OtherKey(lastKey'))
         => /\ UNCHANGED <<idx, renderedLines, rawMode, listening, flowing, pending,
                           result, outcome, resolveCalls, ttyFd, written, lastErase,
                           renders, items, title>>
            /\ effects' = <<>>]_vars

\* a plain c and an event with no descriptor came after a Down, and the session is
\* still open on the item the Down moved to
C16_Witness ==
    /\ pending
    /\ keys = 3
    /\ downs = 1
    /\ ups = 0
    /\ lastKey \in {NoKey, [has |-> TRUE, name |-> "c", ctrl |-> FALSE]}
    /\ idx = (idx0 + 1) % Len(items)
    /\ renders = 2
    /\ rawMode
    /\ listening

\* C17: when one step of the terminal restoration throws (removing the listener,
\* leaving raw mode, pausing the input, closing the handle), the handler still makes
\* every call of stop() in order and resolves with the result it would have had;
\* at most the one thing whose call threw is left unrestored.
C17_RestoreFailureSwallowed ==
    [][(KeyHandled /\ (EnterKey(lastKey') \/ EscapeKey(lastKey')))
         => /\ effects' = <<"clear", "off", "setRawMode(false)", "pause">>
                          \o (IF needClose THEN <<"destroy">> ELSE <<>>)
                          \o <<"resolve">>
            /\ ~pending'
            /\ resolveCalls' = 1
            /\ renderedLines' = 0
            /\ result' = IF EnterKey(lastKey') THEN JSStr(items[idx + 1]) ELSE JSNull
            /\ (IF listening' THEN 1 ELSE 0) + (IF rawMode' THEN 1 ELSE 0)
                 + (IF flowing' THEN 1 ELSE 0) + (IF ttyFd' = "open" THEN 1 ELSE 0) <= 1]_vars

\* removing the listener threw: the listener is still there, and raw mode is off,
\* the input is paused, the handle is closed and the item is delivered
C17_Witness ==
    /\ Resolved
    /\ outcome = "picked"
    /\ result = JSStr(items[idx + 1])
    /\ listening
    /\ ~rawMode
    /\ ~flowing
    /\ ttyFd = "closed"


\* C18: in every command flow, whenever a selector session exists (a preset picker or a
\* menu was invoked and has not been left), it was invoked with at least one item
C18_SelectorHasItems == kind # "none" => Len(items) >= 1

\* C18 is exercised: the delete flow is back at its preset picker after an entire
\* preset was deleted, and the picker shows the one preset that is left
C18_Witness == /\ pc = "cmdDelInteractive.picked" /\ kind = "preset" /\ pending
               /\ disk.file = "config" /\ Len(SortedKeys(disk.envs)) = 1
               /\ items = SortedKeys(disk.envs) /\ answered >= 1


\* the file at the config path is a config whose current is null or one of its presets
CurrentNamesPreset(f) ==
    f.file = "config" => (f.current = JSNull \/ f.current.val \in DOMAIN f.envs)

\* C19: starting from a config whose current is null or an existing preset, after every
\* step of every use, set, edit and del the saved current is null or an existing preset
C19_CurrentNamesPreset == CurrentNamesPreset(disk)


\* C11: in a run of use, nothing is on standard output while the selector is open or
\* after a run that failed or was cancelled, and a run that succeeded has written the
\* export statements of the chosen preset and nothing else
C11_StdoutOnlyExports ==
    /\ pc # "exit" => stdout = <<>>
    /\ (pc = "exit" /\ exitCode # 0) => stdout = <<>>
    /\ (pc = "exit" /\ exitCode = 0) => stdout = <<Exports(VarsOf(disk, disk.current.val))>>

\* C11 is exercised: an interactive use picked a preset on a terminal, the selector
\* rendered and was left, and the exports of the preset are on standard output
C11_Witness ==
    /\ pc = "exit" /\ exitCode = 0 /\ args.cmd = "use" /\ Falsy(args.name)
    /\ handled = [outcome |-> "picked", as |-> "picked"]
    /\ stdout = <<Exports(disk.envs[dev])>> /\ Len(stdout[1]) > 0


RECURSIVE ShellWord(_, _, _)
\* the word a POSIX shell reads at the start of text, and what is left after it: between
\* single quotes every character stands for itself; outside them a backslash makes the
\* next character literal, $ starts an expansion (the word is not literal: not ok), and
\* a blank, a semicolon or a line break ends the word
ShellWord(text, quoted, word) ==
    IF text = <<>> THEN [ok |-> ~quoted, word |-> word, rest |-> <<>>]
    ELSE IF quoted
    THEN IF Head(text) = "'"
         THEN ShellWord(Tail(text), FALSE, word)
         ELSE ShellWord(Tail(text), TRUE, Append(word, Head(text)))
    ELSE CASE Head(text) = "'" -> ShellWord(Tail(text), TRUE, word)
           [] Head(text) = "\\" ->
                 IF Len(text) = 1 THEN [ok |-> FALSE, word |-> word, rest |-> text]
                 ELSE ShellWord(Tail(Tail(text)), FALSE, Append(word, text[2]))
           [] Head(text) = "$" -> [ok |-> FALSE, word |-> word, rest |-> text]
           [] Head(text) \in {" ", ";", "\n"} -> [ok |-> TRUE, word |-> word, rest |-> text]
           [] OTHER -> ShellWord(Tail(text), FALSE, Append(word, Head(text)))

\* the index of the first ch in text, Len(text) + 1 when there is none
FirstOf(text, ch) ==
    IF \E i \in 1..Len(text) : text[i] = ch
    THEN CHOOSE i \in 1..Len(text) : text[i] = ch /\ \A j \in 1..(i - 1) : text[j] # ch
    ELSE Len(text) + 1

RECURSIVE SplitLines(_)
\* the lines of a text, each ended by a line break
SplitLines(text) ==
    IF text = <<>> THEN <<>>
    ELSE LET p == FirstOf(text, "\n")
         IN <<SubSeq(text, 1, p - 1)>> \o SplitLines(SubSeq(text, p + 1, Len(text)))

\* a line read as the shell reads `export KEY=word;`: the name before the first =, the
\* word after it, and what follows the word
ReadExport(line) ==
    LET p == FirstOf(line, "=")
        w == ShellWord(SubSeq(line, p + 1, Len(line)), FALSE, <<>>)
    IN [ok |-> line # <<>> /\ Head(line) = "export " /\ p <= Len(line) /\ w.ok,
        name |-> SubSeq(line, 2, p - 1), word |-> w.word, rest |-> w.rest]

\* C15: a use that succeeds has written as many lines as the preset has keys, and for
\* every key one of them reads, under the quoting rules of the shell, as export, the
\* key, =, a word that is exactly the stored value, and a semicolon with nothing else
C15_ExportsReadBack ==
    (pc = "exit" /\ exitCode = 0) =>
        LET vs == VarsOf(disk, disk.current.val)
            ls == SplitLines(stdout[1])
        IN /\ Len(stdout) = 1
           /\ Len(ls) = Cardinality(DOMAIN vs)
           /\ \A k \in DOMAIN vs :
                 \E i \in 1..Len(ls) :
                    LET r == ReadExport(ls[i])
                    IN r.ok /\ r.name = k /\ r.word = vs[k] /\ r.rest = <<";">>

\* C15 is exercised: use has exported a preset of two keys, one of them with a value
\* made of a single quote and a backslash
C15_Witness ==
    /\ pc = "exit" /\ exitCode = 0 /\ args.cmd = "use" /\ disk.current = JSStr(dev)
    /\ disk.envs[dev] = (<<"A">> :> <<"'", "\\">>) @@ (<<"B">> :> <<"1">>)
    /\ Len(SplitLines(stdout[1])) = 2


\* C20: in a run of use, a step that does not end the run with status 0 leaves the
\* stored config and standard output as they were, with nothing on standard output; a
\* run that ends with nothing written to standard output ends with status 1; and the
\* stored config changes only in the step that writes the exports and ends with status 0
C20_FailedUseChangesNothing ==
    [][/\ exitCode' # 0 => (disk' = disk /\ stdout' = <<>>)
       /\ (pc' = "exit" /\ stdout' = <<>>) => exitCode' = 1
       /\ disk' # disk => (Len(stdout') = 1 /\ stdout = <<>> /\ pc' = "exit" /\ exitCode' = 0
                            /\ disk'.current # JSNull)]_vars

\* C20 is exercised: use was given a preset that holds a key outside [A-Z0-9_]; it has
\* exited with status 1, nothing is on standard output and current is what it was
C20_Witness ==
    /\ pc = "exit" /\ exitCode = 1 /\ args = Argv("use", JSStr(dev), JSNull, JSNull)
    /\ stdout = <<>> /\ disk.file = "config" /\ disk.current = JSStr(prod)
    /\ <<"a">> \in DOMAIN disk.envs[dev]


\* the characters of the class [A-Z0-9_]
KeyClass ==
    {"A", "B", "C", "D", "E", "F", "G", "H", "I", "J", "K", "L", "M", "N", "O", "P", "Q",
     "R", "S", "T", "U", "V", "W", "X", "Y", "Z", "0", "1", "2", "3", "4", "5", "6", "7",
     "8", "9", "_"}

\* every key of every preset matches ^[A-Z0-9_]+$ and no value holds a CR or LF
ValidVars(envs) ==
    \A n \in DOMAIN envs : \A k \in DOMAIN envs[n] :
        /\ Len(k) >= 1
        /\ \A i \in 1..Len(k) : k[i] \in KeyClass
        /\ \A i \in 1..Len(envs[n][k]) : envs[n][k][i] \notin {"\r", "\n"}

\* C14: starting from a config of valid keys and single-line values, after every step of
\* every set (interactive or not), edit and del, every stored key matches ^[A-Z0-9_]+$
\* and no stored value holds a line break: a rejected key or value is never written
C14_StoredVarsValid == ValidVars(disk.envs)

\* C14 is exercised: quickenv set dev a <value with a line break> was rejected with
\* status 1 and the stored preset still holds its one valid key
C14_Witness ==
    /\ pc = "exit" /\ exitCode = 1 /\ args.cmd = "set"
    /\ args.key = JSStr(<<"a">>) /\ hasNewline(args.value.val)
    /\ disk.file = "config" /\ dev \in DOMAIN disk.envs /\ DOMAIN disk.envs[dev] = {<<"A">>}


\* C13: while the file at the config path is malformed, a command that loads it ends at
\* once with status 1, and no step replaces the file
C13_MalformedRejected ==
    [][/\ disk \in BrokenFiles => disk' = disk
       /\ (disk \in BrokenFiles /\ pc = "start" /\ args'.cmd # "root")
             => (pc' = "exit" /\ exitCode' = 1)]_vars


\* C12: in every step of every sequence of saves and crashes the config path keeps its
\* content or takes the whole content being saved, and never holds an empty or partial file
C12_AtomicReplace ==
    [][/\ disk' = disk \/ disk' = File(cfg)
       /\ disk'.file \notin {"blank", "partial"}]_vars

\* C12 is exercised: a process died between the write of the temp file and the rename;
\* the temp file holds the whole new content and the config path the whole previous one
C12_Witness ==
    /\ pc = "start" /\ tmp.file = "config" /\ disk.file = "config" /\ tmp # disk
    /\ disk.current = JSStr(qa)


\* the command that awaited the selector is over: the process has exited, or the
\* palette shows again
Returned(label) == label \in {"exit", "cmdRootInteractive.picked"}

\* the session of the menu awaited at label has resolved with the item under the cursor
PickedAt(label) == pc = label /\ kind # "none" /\ ~pending /\ outcome = "picked"

\* the entries of the menu that stand for stored presets or keys: all but the last n
StoredEntries(n) == Len(items) - n

\* C21: in the set, edit and del menus a picked entry that stands for a stored preset
\* or key makes the flow go on with exactly that preset or key, and a picked action
\* entry (Create, Delete entire preset, Back, Cancel) does what it says and sets no
\* preset or key
C21_PickActsOnEntry ==
    [][/\ PickedAt("cmdSetInteractive.sel") =>
            IF idx < StoredEntries(2)
            THEN pc' = "cmdSetInteractive.key" /\ presetName' = JSStr(items[idx + 1])
            ELSE IF idx = StoredEntries(2) THEN pc' = "cmdSetInteractive.newName"
            ELSE Returned(pc')
       /\ PickedAt("cmdSetInteractive.change") =>
            IF idx < StoredEntries(2)
            THEN pc' = "cmdSetInteractive.key" /\ presetName' = JSStr(items[idx + 1])
            ELSE IF idx = StoredEntries(2) THEN pc' = "cmdSetInteractive.newName2"
            ELSE pc' = "cmdSetInteractive.key" /\ presetName' = presetName
       /\ PickedAt("cmdEditInteractive.ret") =>
            IF idx < StoredEntries(3)
            THEN pc' = "cmdEditInteractive.value" /\ key' = items[idx + 1]
                 /\ presetName' = presetName
            ELSE IF idx = StoredEntries(3) THEN pc' = "cmdEditInteractive.newKey"
            ELSE IF idx = StoredEntries(3) + 1 THEN pc' = "cmdEditInteractive.picked"
            ELSE Returned(pc')
       /\ PickedAt("cmdDelInteractive.selection") =>
            IF idx < StoredEntries(3)
            THEN pc' = "cmdDelInteractive.confirmKey" /\ key' = items[idx + 1]
                 /\ presetName' = presetName
            ELSE IF idx = StoredEntries(3) THEN pc' = "cmdDelInteractive.confirmPreset"
            ELSE IF idx = StoredEntries(3) + 1 THEN pc' = "cmdDelInteractive.picked"
            ELSE Returned(pc')]_vars

====
